---- MODULE Spec2Model ----
(***************************************************************************)
(* A model of "inverse": the tile grid (src/src/level.rs: the struct       *)
(* Levels, its addressing functions, its level operations and its text     *)
(* codec, Display / FromStr), the player (src/src/player.rs: the input     *)
(* sampling and the tick) and the editor (src/src/main.rs: the enum        *)
(* Editor).                                                                *)
(*                                                                         *)
(* Conventions.                                                            *)
(*  - Rust vectors are 0-based, TLA+ sequences 1-based: At(s, i) reads the *)
(*    element the code calls s[i].                                         *)
(*  - Option<T> is a sequence of length 0 (None) or 1 (Some(x)).           *)
(*  - A string is the sequence of its lines (what str::lines() yields),    *)
(*    each line the sequence of its characters.                            *)
(*  - An f32 coordinate is a rational k / SUBDIV, held as the integer k;   *)
(*    SUBDIV is the denominator of Player::GRAVITY, so that the constants  *)
(*    of the player are whole.  The one product that is not a multiple of  *)
(*    1 / SUBDIV, the friction of velocity[0], is rounded to the nearest   *)
(*    unit.  The corner offset 1.0 - 10e-6 of a half body is SIZE / 2      *)
(*    less one unit: the same tile and the same range tests for every      *)
(*    position that is a whole number of units.                            *)
(*  - usize arithmetic is checked arithmetic (the dev profile): an         *)
(*    underflow, a division by zero, a failed assert! or unwrap() and an   *)
(*    out-of-range Vec access all panic.  Where the build decides the      *)
(*    outcome and the grid's own invariants do not exclude the case (the   *)
(*    editor's gem_index - 1), both outcomes are taken.  A panic ends the  *)
(*    program; the variables keep what had been written when it happened.  *)
(***************************************************************************)
EXTENDS Integers, Sequences, FiniteSets, TLC

VARIABLES
    levels,     \* the Levels value (the struct's six fields)
    prev,       \* the Levels value when the last call was made
    op,         \* the last call: its name and arguments
    ret,        \* what the last call returned
    panicked,   \* the last call panicked
    text,       \* the text of levels.txt
    player,     \* the Player value (the struct's seven fields)
    editor,     \* the Editor value: its variant and last_selected
    hist        \* what has happened: the keys at the last update_input, the
                \* frames and ticks made, the ticks since the player was
                \* last on the ground, the player and the editor before the
                \* last call, the tiles the editing started from

vars == <<levels, prev, op, ret, panicked, text, player, editor, hist>>

-----------------------------------------------------------------------------
(* Bounds of the model *)

\* insert_level is called only while the grid has fewer levels than this
MaxLevels == 3
\* update is called at most this many times
MaxTicks == 5
\* update_input is called at most this many times
MaxFrames == 3
\* while the editor is open, update is called at most this many times
MaxEditorTicks == 2

-----------------------------------------------------------------------------
(* Constants of the program *)

LEVEL_WIDTH == 15
LEVEL_HEIGHT == 11
\* the 5 of insert_level: the solid rows of a new level
FLOOR_ROWS == 5

LEVEL_TILES == (LEVEL_WIDTH - 1) * LEVEL_HEIGHT

\* Player::UPDATES_PER_SECOND, UPS_SCALE = UPDATES_PER_SECOND / 30.0
UPDATES_PER_SECOND == 60
UPS_SCALE == UPDATES_PER_SECOND \div 30

\* an f32 coordinate is k / SUBDIV: GRAVITY = 1.0 / 32.0 / UPS_SCALE / UPS_SCALE
\* is one unit
SUBDIV == 32 * UPS_SCALE * UPS_SCALE
GRAVITY == ((SUBDIV \div 32) \div UPS_SCALE) \div UPS_SCALE

\* Player::SIZE = 0.5
SIZE == SUBDIV \div 2

MAXIMUM_UPDATES_PER_FRAME == 5

\* Player::CYOTE_FRAMES = (0.05 * UPDATES_PER_SECOND) as u8
CYOTE_FRAMES == (5 * UPDATES_PER_SECOND) \div 100

\* crate::LOGICAL_SCREEN_WIDTH and _HEIGHT, in units of 1 / SUBDIV
LOGICAL_SCREEN_WIDTH == LEVEL_WIDTH * SUBDIV
LOGICAL_SCREEN_HEIGHT == LEVEL_HEIGHT * SUBDIV

-----------------------------------------------------------------------------
(* Rust's values *)

None == <<>>
Some(x) == <<x>>
IsSome(o) == Len(o) = 1
Unwrap(o) == o[1]

At(s, i) == s[i + 1]

Min(a, b) == IF a < b THEN a ELSE b

\* Op(v), with v computed once: a `let` binding of the code
Let(Op(_), v) == CHOOSE r \in {Op(x) : x \in {v}} : TRUE

-----------------------------------------------------------------------------
(* struct Levels *)

Levels(tiles, num_levels, level_index, x_offset, limited_gem, full_gem) ==
    [tiles |-> tiles, num_levels |-> num_levels, level_index |-> level_index,
     x_offset |-> x_offset, limited_gem |-> limited_gem, full_gem |-> full_gem]

\* Levels::new
new == Levels([i \in 1..LEVEL_TILES |-> FALSE], 1, 0, 0, None, None)

\* MUTANT of update_level_offset: a level taken to be LEVEL_WIDTH columns wide
update_level_offset_screen_width(L) ==
    [L EXCEPT !.x_offset = L.level_index * LEVEL_WIDTH]

\* Levels::update_level_offset
update_level_offset(L) ==
    [L EXCEPT !.x_offset = L.level_index * (LEVEL_WIDTH - 1)]

\* Levels::offset_of_level
offset_of_level(level_index) ==
    level_index * (LEVEL_WIDTH - 1) * LEVEL_HEIGHT

(* Levels::next_level.  `%= self.num_levels` panics on 0, after the += 1. *)
next_level_panics(L) == L.num_levels = 0

next_level_at_panic(L) == [L EXCEPT !.level_index = @ + 1]

next_level(L) ==
    update_level_offset([L EXCEPT !.level_index = (@ + 1) % L.num_levels])

(* Levels::previous_level.  `self.num_levels - 1` underflows on 0. *)
previous_level_panics(L) == L.level_index = 0 /\ L.num_levels = 0

previous_level(L) ==
    update_level_offset(
        IF L.level_index = 0
        THEN [L EXCEPT !.level_index = L.num_levels - 1]
        ELSE [L EXCEPT !.level_index = @ - 1])

(* Levels::insert_level.  An inner loop, n times `self.tiles.insert(offset,  *)
(* tile); offset += 1`, leaves n tiles in front of the one that was at      *)
(* offset.  A column is FLOOR_ROWS times true, then LEVEL_HEIGHT -          *)
(* FLOOR_ROWS times false.                                                  *)
insert_rows(tiles, offset, n, tile) ==
    SubSeq(tiles, 1, offset) \o [i \in 1..n |-> tile]
        \o SubSeq(tiles, offset + 1, Len(tiles))

RECURSIVE insert_columns(_, _, _)
insert_columns(tiles, offset, n) ==
    IF n = 0 THEN tiles
    ELSE insert_columns(
            insert_rows(insert_rows(tiles, offset, FLOOR_ROWS, TRUE),
                        offset + FLOOR_ROWS, LEVEL_HEIGHT - FLOOR_ROWS, FALSE),
            offset + LEVEL_HEIGHT, n - 1)

\* the assert!(index < self.num_levels) comes after the += 1; Vec::insert
\* panics past the end
insert_level_panics(L, index) ==
    \/ ~(index < L.num_levels + 1)
    \/ offset_of_level(index) > Len(L.tiles)

insert_level_at_panic(L, index) ==
    LET L1 == [L EXCEPT !.num_levels = @ + 1] IN
    IF ~(index < L1.num_levels) THEN L1
    ELSE IF L1.level_index >= index THEN next_level(L1) ELSE L1

\* MUTANT of insert_level: `>` for `>=`, the active level follows only when
\* it is past the new one
insert_level_strictly_after(L, index) ==
    LET L1 == [L EXCEPT !.num_levels = @ + 1]
        L2 == IF L1.level_index > index THEN next_level(L1) ELSE L1
    IN  [L2 EXCEPT !.tiles =
            insert_columns(L2.tiles, offset_of_level(index), LEVEL_WIDTH - 1)]

\* MUTANT of insert_level: the new level spliced in after level `index`
insert_level_after(L, index) ==
    LET L1 == [L EXCEPT !.num_levels = @ + 1]
        L2 == IF L1.level_index >= index THEN next_level(L1) ELSE L1
    IN  [L2 EXCEPT !.tiles =
            insert_columns(L2.tiles,
                           Min(offset_of_level(index + 1), Len(L2.tiles)),
                           LEVEL_WIDTH - 1)]

insert_level(L, index) ==
    LET L1 == [L EXCEPT !.num_levels = @ + 1]
        L2 == IF L1.level_index >= index THEN next_level(L1) ELSE L1
    IN  [L2 EXCEPT !.tiles =
            insert_columns(L2.tiles, offset_of_level(index), LEVEL_WIDTH - 1)]

(* Levels::remove_level.  The loop, n times `self.tiles.remove(offset)`,     *)
(* takes out the n tiles from offset on.                                    *)
remove_tiles(tiles, offset, n) ==
    SubSeq(tiles, 1, offset) \o SubSeq(tiles, offset + n + 1, Len(tiles))

\* the Vec::remove calls that succeed before one is out of range
removable(L, index) ==
    Min(LEVEL_TILES,
        IF Len(L.tiles) > offset_of_level(index)
        THEN Len(L.tiles) - offset_of_level(index) ELSE 0)

remove_level_panics(L, index) ==
    \/ ~(index < L.num_levels)
    \/ removable(L, index) < LEVEL_TILES

remove_level_at_panic(L, index) ==
    IF ~(index < L.num_levels) THEN L
    ELSE LET L1 == [L EXCEPT !.num_levels = @ - 1]
             L2 == IF L1.level_index > index THEN previous_level(L1) ELSE L1
         IN  [L2 EXCEPT !.tiles =
                remove_tiles(L2.tiles, offset_of_level(index), removable(L, index))]

\* MUTANT of remove_level: LEVEL_WIDTH columns taken out, not LEVEL_WIDTH - 1
remove_level_screen_width(L, index) ==
    LET L1 == [L EXCEPT !.num_levels = @ - 1]
        L2 == IF L1.level_index > index THEN previous_level(L1) ELSE L1
    IN  [L2 EXCEPT !.tiles =
            remove_tiles(L2.tiles, offset_of_level(index),
                         LEVEL_WIDTH * LEVEL_HEIGHT)]

remove_level(L, index) ==
    LET L1 == [L EXCEPT !.num_levels = @ - 1]
        L2 == IF L1.level_index > index THEN previous_level(L1) ELSE L1
    IN  [L2 EXCEPT !.tiles =
            remove_tiles(L2.tiles, offset_of_level(index), LEVEL_TILES)]

-----------------------------------------------------------------------------
(* Addressing *)

\* MUTANT of is_index_in_bounds: `<` for `<=`
is_index_in_bounds_strict(L, index) ==
    index[1] < LEVEL_WIDTH /\ index[2] < LEVEL_HEIGHT

\* Levels::is_index_in_bounds
is_index_in_bounds(L, index) ==
    index[1] <= LEVEL_WIDTH /\ index[2] <= LEVEL_HEIGHT

\* Levels::index_of_unchecked; `% self.tiles.len()` panics on an empty grid
index_of_unchecked(L, index) ==
    LET overflowing_index == (index[1] + L.x_offset) * LEVEL_HEIGHT + index[2]
    IN  overflowing_index % Len(L.tiles)

\* Levels::index_of
index_of_panics(L, index) == is_index_in_bounds(L, index) /\ Len(L.tiles) = 0

index_of(L, index) ==
    IF is_index_in_bounds(L, index)
    THEN Some(index_of_unchecked(L, index))
    ELSE None

\* Levels::get
get(L, index) ==
    LET tile_index == index_of(L, index) IN
    IF IsSome(tile_index) THEN Some(At(L.tiles, Unwrap(tile_index))) ELSE None

\* impl IndexMut: `levels[index] = value`, get_mut(index).unwrap() written to
index_mut_panics(L, index) ==
    index_of_panics(L, index) \/ ~is_index_in_bounds(L, index)

index_mut(L, index, value) ==
    [L EXCEPT !.tiles[Unwrap(index_of(L, index)) + 1] = value]

(* Levels::position_of_tile_index: Some([x, y]), the f32 coordinates whole   *)
(* numbers.  `self.num_levels - 1` is evaluated when x == 0 is outside the  *)
(* window, and underflows on 0.                                             *)
in_window(L, x) == x >= L.x_offset /\ x < L.x_offset + LEVEL_WIDTH

position_of_tile_index_panics(L, tile_index) ==
    LET x == tile_index \div LEVEL_HEIGHT IN
    ~in_window(L, x) /\ x = 0 /\ L.num_levels = 0

position_of_tile_index(L, tile_index) ==
    LET x == tile_index \div LEVEL_HEIGHT
        y == tile_index % LEVEL_HEIGHT
    IN  IF in_window(L, x) THEN Some(<<x, y>>)
        ELSE IF x = 0 /\ L.level_index = L.num_levels - 1
        THEN Some(<<LEVEL_WIDTH - 1, y>>)
        ELSE None

(* Levels::index_of_position: Ok([col, row]) or Err([error of x, error of y]) *)
axis_error(p, limit) ==
    IF p < 0 THEN Some("TooSmall")
    ELSE IF p >= limit THEN Some("TooBig")
    ELSE None

index_of_position(position) ==
    LET error == <<axis_error(position[1], LOGICAL_SCREEN_WIDTH),
                   axis_error(position[2], LOGICAL_SCREEN_HEIGHT)>>
    IN  IF error = <<None, None>>
        THEN [ok |-> TRUE,
              index |-> <<Min(position[1] \div SUBDIV, LEVEL_WIDTH - 1),
                          Min(position[2] \div SUBDIV, LEVEL_HEIGHT - 1)>>]
        ELSE [ok |-> FALSE, error |-> error]

\* Levels::get_from_position
get_from_position_panics(L, position) ==
    index_of_position(position).ok /\ Len(L.tiles) = 0

\* MUTANT of get_from_position: the two axes of the error exchanged
get_from_position_transposed(L, position) ==
    LET r == index_of_position(position) IN
    IF r.ok THEN Some(Unwrap(get(L, r.index)))
    ELSE IF r.error = <<Some("TooBig"), None>> THEN Some(FALSE)
    ELSE IF r.error = <<Some("TooSmall"), None>> THEN Some(TRUE)
    ELSE None

get_from_position(L, position) ==
    LET r == index_of_position(position) IN
    IF r.ok THEN Some(Unwrap(get(L, r.index)))
    ELSE IF r.error = <<None, Some("TooBig")>> THEN Some(FALSE)
    ELSE IF r.error = <<None, Some("TooSmall")>> THEN Some(TRUE)
    ELSE None

-----------------------------------------------------------------------------
(* The text codec *)

(* impl Display for Levels: LEVEL_HEIGHT lines, the top row first, every    *)
(* line the characters of its row over all levels and then '|'.             *)
display_char(L, x, y) ==
    LET tile_index == x * LEVEL_HEIGHT + y IN
    IF Some(tile_index) = L.limited_gem THEN "e"
    ELSE IF Some(tile_index) = L.full_gem THEN "E"
    ELSE IF At(L.tiles, x * LEVEL_HEIGHT + y) THEN "x" ELSE " "

\* MUTANT of to_string: `for y in 0..LEVEL_HEIGHT`, the bottom row first
to_string_bottom_first(L) ==
    [k \in 1..LEVEL_HEIGHT |->
        [c \in 1..((LEVEL_WIDTH - 1) * L.num_levels + 1) |->
            IF c = (LEVEL_WIDTH - 1) * L.num_levels + 1 THEN "|"
            ELSE display_char(L, c - 1, k - 1)]]

to_string(L) ==
    [k \in 1..LEVEL_HEIGHT |->
        [c \in 1..((LEVEL_WIDTH - 1) * L.num_levels + 1) |->
            IF c = (LEVEL_WIDTH - 1) * L.num_levels + 1 THEN "|"
            ELSE display_char(L, c - 1, LEVEL_HEIGHT - k)]]

\* self.tiles[x * LEVEL_HEIGHT + y] is out of range
to_string_panics(L) ==
    (LEVEL_WIDTH - 1) * L.num_levels * LEVEL_HEIGHT > Len(L.tiles)

(* impl FromStr for Levels *)
Ok(v) == [ok |-> TRUE, levels |-> v]
Err(e) == [ok |-> FALSE, error |-> e]

(* One round of the loop's `for (i, line) in lines.iter_mut().enumerate()   *)
(* .rev()`: the character at position c of every line, from the last line   *)
(* to the first.  n lines are still to be read; acc holds tiles and gems.   *)
RECURSIVE read_column(_, _, _, _)
read_column(s, c, n, acc) ==
    IF n = 0 THEN [ok |-> TRUE, acc |-> acc]
    ELSE
        LET i == n - 1
            line == At(s, i)
        IN
        IF c >= Len(line) THEN Err(<<"LineEndsEarly", i>>)
        ELSE
            LET character == At(line, c) IN
            IF character = " "
            THEN read_column(s, c, n - 1,
                    [acc EXCEPT !.tiles = Append(@, FALSE)])
            ELSE IF character = "x"
            THEN read_column(s, c, n - 1,
                    [acc EXCEPT !.tiles = Append(@, TRUE)])
            ELSE IF character = "e"
            THEN IF acc.limited_gem = None
                 THEN read_column(s, c, n - 1,
                        [acc EXCEPT !.limited_gem = Some(Len(acc.tiles)),
                                    !.tiles = Append(@, FALSE)])
                 ELSE Err(<<"DuplicateGem", "e">>)
            ELSE IF character = "E"
            THEN IF acc.full_gem = None
                 THEN read_column(s, c, n - 1,
                        [acc EXCEPT !.full_gem = Some(Len(acc.tiles)),
                                    !.tiles = Append(@, FALSE)])
                 ELSE Err(<<"DuplicateGem", "E">>)
            ELSE Err(<<"InvalidTileCharacter", character>>)

(* The check of the terminators once lines[0].peek() is '|': what line i    *)
(* fails with, None when its rest is exactly "|".                           *)
\* MUTANT of ending_error: what follows the '|' of a line is not looked at
ending_error_lenient(s, c, i) ==
    LET line == At(s, i) IN
    IF c >= Len(line) THEN Some(<<"LineEndsEarly", i>>)
    ELSE IF At(line, c) = "|" THEN None
    ELSE Some(<<"InvalidEndingCharacter", At(line, c)>>)

ending_error(s, c, i) ==
    LET line == At(s, i) IN
    IF c >= Len(line) THEN Some(<<"LineEndsEarly", i>>)
    ELSE IF At(line, c) = "|"
    THEN IF c + 1 < Len(line)
         THEN Some(<<"InvalidTileCharacter", "|">>) ELSE None
    ELSE Some(<<"InvalidEndingCharacter", At(line, c)>>)

check_endings(s, c) ==
    LET bad == {i \in 0..(Len(s) - 1) : ending_error(s, c, i) # None} IN
    IF bad = {} THEN None
    ELSE ending_error(s, c, CHOOSE i \in bad : \A j \in bad : i <= j)

(* The loop: rounds until the first line's next character is '|'. *)
RECURSIVE read_columns(_, _, _)
read_columns(s, c, acc) ==
    LET round == read_column(s, c, Len(s), acc) IN
    IF ~round.ok THEN round
    ELSE IF c + 1 < Len(At(s, 0)) /\ At(At(s, 0), c + 1) = "|"
    THEN LET e == check_endings(s, c + 1) IN
         IF e = None THEN round ELSE Err(Unwrap(e))
    ELSE read_columns(s, c + 1, round.acc)

from_str(s) ==
    IF Len(s) # LEVEL_HEIGHT THEN Err(<<"InvalidHeight">>)
    ELSE
        LET r == read_columns(s, 0,
                    [tiles |-> <<>>, limited_gem |-> None, full_gem |-> None])
        IN
        IF ~r.ok THEN r
        ELSE IF Len(r.acc.tiles) % LEVEL_TILES # 0 THEN Err(<<"InvalidWidth">>)
        ELSE Ok(Levels(r.acc.tiles, Len(r.acc.tiles) \div LEVEL_TILES, 0, 0,
                       r.acc.limited_gem, r.acc.full_gem))

-----------------------------------------------------------------------------
(* struct Player *)

Player(position, velocity, air_kind, on_ground, cyote_time, inputs_down, inputs_ready) ==
    [position |-> position, velocity |-> velocity, air_kind |-> air_kind,
     on_ground |-> on_ground, cyote_time |-> cyote_time,
     inputs_down |-> inputs_down, inputs_ready |-> inputs_ready]

NoInputs == [i \in 0..3 |-> FALSE]

\* Player::new
player_new ==
    Player(<<LOGICAL_SCREEN_WIDTH \div 2, LOGICAL_SCREEN_HEIGHT \div 2>>,
           <<0, 0>>, FALSE, FALSE, 0, NoInputs, NoInputs)

\* MUTANT of update_input: inputs_ready is not gated by inputs_down
update_input_ungated(P, is_down, is_pressed) ==
    [P EXCEPT !.inputs_down = [i \in 0..3 |-> P.inputs_down[i] \/ is_down[i]],
              !.inputs_ready = [i \in 0..3 |->
                    P.inputs_ready[i] \/ is_pressed[i]]]

(* Player::update_input: is_down and is_pressed are what the keyboard      *)
(* reports of the four key groups in this frame.                           *)
update_input(P, is_down, is_pressed) ==
    LET inputs_down == [i \in 0..3 |-> P.inputs_down[i] \/ is_down[i]] IN
    [P EXCEPT !.inputs_down = inputs_down,
              !.inputs_ready = [i \in 0..3 |->
                    (P.inputs_ready[i] \/ is_pressed[i]) /\ inputs_down[i]]]

\* MUTANT of gravity: the two arms of the match exchanged
gravity_exchanged(P) == IF P.air_kind THEN -GRAVITY ELSE GRAVITY

\* Player::gravity
gravity(P) == IF P.air_kind THEN GRAVITY ELSE -GRAVITY

(* Player::move_by.  A corner is position + corner * SIZE / 2, the corner  *)
(* 1.0 taken as 1.0 - 10e-6: less than a unit short of SIZE / 2, so that   *)
(* its floor and its place on the screen are those of SIZE / 2 - 1 unit.   *)
CORNERS == <<<<1, 1>>, <<-1, 1>>, <<-1, -1>>, <<1, -1>>>>

corner_offset(c) == IF c = 1 THEN SIZE \div 2 - 1 ELSE -(SIZE \div 2)

\* f32::floor, of a coordinate
floor(p) == (p \div SUBDIV) * SUBDIV

RECURSIVE move_corners(_, _, _, _, _, _)
move_corners(L, air_kind, position, amount, k, collision) ==
    IF k > Len(CORNERS)
    THEN [signal |-> TRUE, collision |-> collision, position |-> position]
    ELSE
        LET corner_position ==
                <<position[1] + corner_offset(CORNERS[k][1]),
                  position[2] + corner_offset(CORNERS[k][2])>>
            tile == get_from_position(L, corner_position)
        IN
        IF tile = None
        THEN [signal |-> FALSE, collision |-> collision, position |-> position]
        ELSE IF Unwrap(tile) = air_kind
        THEN move_corners(L, air_kind, position, amount, k + 1, collision)
        ELSE IF amount[1] # 0
        THEN Let(LAMBDA snapped :
                    move_corners(L, air_kind, snapped, amount, k + 1, TRUE),
                 <<IF amount[1] > 0
                   THEN floor(corner_position[1]) - SIZE \div 2
                   ELSE floor(corner_position[1]) + SUBDIV + SIZE \div 2,
                   position[2]>>)
        ELSE IF amount[2] # 0
        THEN Let(LAMBDA snapped :
                    move_corners(L, air_kind, snapped, amount, k + 1, TRUE),
                 <<position[1],
                   IF amount[2] > 0
                   THEN floor(corner_position[2]) - SIZE \div 2
                   ELSE floor(corner_position[2]) + SUBDIV + SIZE \div 2>>)
        ELSE [signal |-> TRUE, collision |-> TRUE, position |-> position]

\* Some(collision) is signal /\ collision, None is ~signal; position is
\* self.position when move_by returns
move_by(L, P, amount) ==
    Let(LAMBDA moved : move_corners(L, P.air_kind, moved, amount, 1, FALSE),
        <<P.position[1] + amount[1], P.position[2] + amount[2]>>)

\* Player::is_intersecting
is_intersecting(L, P) ==
    LET r == move_by(L, P, <<0, 0>>) IN
    IF r.signal THEN r.collision ELSE TRUE

\* f32 `as` a whole number of units: the nearest, a half away from zero
round(numerator, denominator) ==
    IF numerator >= 0
    THEN (2 * numerator + denominator) \div (2 * denominator)
    ELSE -((2 * (-numerator) + denominator) \div (2 * denominator))

\* velocity[0] *= 1.0 - 0.2 / UPS_SCALE
friction(v) == round(v * (10 * UPS_SCALE - 2), 10 * UPS_SCALE)

\* velocity[1] = -7.5 * UPS_SCALE * self.gravity()
jump_velocity(P) == (-15 * UPS_SCALE * gravity(P)) \div 2

\* MUTANT of lands: any collision of the vertical sweep
lands_on_any_collision(P, y_collision) == y_collision

\* MUTANT of lands: a collision while the body moves against gravity
lands_against_gravity(P, y_collision) ==
    y_collision /\ P.velocity[2] * gravity(P) < 0

\* update: y_collision and self.velocity[1] * self.gravity() > 0.0
lands(P, y_collision) == y_collision /\ P.velocity[2] * gravity(P) > 0

\* update: self.inputs_ready[0] && (self.cyote_time > 0 || self.on_ground)
jumps(P) == P.inputs_ready[0] /\ (P.cyote_time > 0 \/ P.on_ground)

\* MUTANT of level_change: the whole width for the half of it
level_change_whole_width(L, P, position) ==
    IF position[1] > LOGICAL_SCREEN_WIDTH
    THEN [levels |-> next_level(L),
          player |-> [P EXCEPT !.position = <<SIZE \div 2, position[2]>>]]
    ELSE [levels |-> previous_level(L),
          player |-> [P EXCEPT !.position =
                        <<LOGICAL_SCREEN_WIDTH - SIZE \div 2, position[2]>>]]

level_change(L, P, position) ==
    IF position[1] > LOGICAL_SCREEN_WIDTH \div 2
    THEN [levels |-> next_level(L),
          player |-> [P EXCEPT !.position = <<SIZE \div 2, position[2]>>]]
    ELSE [levels |-> previous_level(L),
          player |-> [P EXCEPT !.position =
                        <<LOGICAL_SCREEN_WIDTH - SIZE \div 2, position[2]>>]]

\* MUTANT of flip: the flipped footprint is not tested
flip_untested(L, P) ==
    [P EXCEPT !.position[2] = IF P.air_kind THEN @ + SIZE ELSE @ - SIZE,
              !.air_kind = ~@]

\* update: the flip, of a player on the ground whose flip input is ready
flip(L, P) ==
    LET flipped ==
            [P EXCEPT !.position[2] = IF P.air_kind THEN @ + SIZE ELSE @ - SIZE,
                      !.air_kind = ~@]
    IN  IF is_intersecting(L, flipped) THEN P ELSE flipped

\* update: velocity[1] += gravity(), then the horizontal sweep
sweep_x(L, P) ==
    Let(LAMBDA P1 : [player |-> P1, x |-> move_by(L, P1, <<P1.velocity[1], 0>>)],
        [P EXCEPT !.velocity[2] = @ + gravity(P)])

\* update: the vertical sweep, from where the horizontal one has ended
sweep_y(L, s) ==
    Let(LAMBDA P2 : [player |-> P2, x_collision |-> s.x.collision,
                     y |-> move_by(L, P2, <<0, P2.velocity[2]>>)],
        [s.player EXCEPT !.position = s.x.position])

\* update: the collisions dealt with, on_ground and cyote_time
collide(t) ==
    LET grounded == lands(t.player, t.y.collision) IN
    [t.player EXCEPT
        !.position = t.y.position,
        !.velocity[1] = IF t.x_collision THEN 0 ELSE @,
        !.on_ground = grounded,
        !.cyote_time = IF grounded THEN CYOTE_FRAMES
                       ELSE IF @ > 0 THEN @ - 1 ELSE @,
        !.velocity[2] = IF t.y.collision THEN 0 ELSE @]

\* update: the jump
jump(P) ==
    IF jumps(P)
    THEN [P EXCEPT !.inputs_ready[0] = FALSE, !.velocity[2] = jump_velocity(P)]
    ELSE P

\* update: inputs_down[3] as isize - inputs_down[1] as isize
x_input(P) ==
    (IF P.inputs_down[3] THEN 1 ELSE 0) - (IF P.inputs_down[1] THEN 1 ELSE 0)

\* update: the friction and the horizontal input
walk(P) == [P EXCEPT !.velocity[1] = friction(@) + x_input(P) * GRAVITY]

\* update: self.on_ground && self.inputs_ready[2]
flips(P) == P.on_ground /\ P.inputs_ready[2]

\* update: the flip, if it is attempted
try_flip(L, P) ==
    IF flips(P) THEN flip(L, [P EXCEPT !.inputs_ready[2] = FALSE]) ELSE P

(* The result of a tick: the player and the grid after the tick, whether   *)
(* the unwrap() of the vertical sweep panicked, and what the tick did: the *)
(* signal and the collision of the horizontal sweep, the collision of the  *)
(* vertical sweep, self.position after the last sweep made, velocity[1]    *)
(* when the sweeps have been dealt with, the jump, the player when the     *)
(* flip is considered and the flip.                                        *)
\* the tick is cut short to change level
changed_level(s, changed) ==
    [levels |-> changed.levels, player |-> changed.player, panics |-> FALSE,
     signal |-> FALSE, x_collision |-> FALSE, y_collision |-> FALSE,
     swept_position |-> s.x.position,
     swept_velocity |-> s.player.velocity[2], grounded |-> FALSE,
     jumped |-> FALSE, before_flip |-> changed.player,
     flip_attempted |-> FALSE, flipped |-> FALSE]

\* the unwrap() of the vertical sweep panics
unwrap_panicked(L, t) ==
    [levels |-> L, player |-> [t.player EXCEPT !.position = t.y.position],
     panics |-> TRUE,
     signal |-> TRUE, x_collision |-> t.x_collision, y_collision |-> FALSE,
     swept_position |-> t.y.position,
     swept_velocity |-> t.player.velocity[2], grounded |-> FALSE,
     jumped |-> FALSE, before_flip |-> t.player,
     flip_attempted |-> FALSE, flipped |-> FALSE]

\* the tick has run to its end: P3 is the player after the collisions, P5
\* before the flip and P6 after it
completed(L, t, P3, P5, P6) ==
    [levels |-> L, player |-> [P6 EXCEPT !.inputs_down = NoInputs],
     panics |-> FALSE,
     signal |-> TRUE, x_collision |-> t.x_collision,
     y_collision |-> t.y.collision,
     swept_position |-> t.y.position,
     swept_velocity |-> P3.velocity[2], grounded |-> P3.on_ground,
     jumped |-> jumps(P3), before_flip |-> P5,
     flip_attempted |-> flips(P5),
     flipped |-> P6.air_kind # P5.air_kind]

\* update, from the flip on
update_flip(L, t, P3, P5) ==
    Let(LAMBDA P6 : completed(L, t, P3, P5, P6), try_flip(L, P5))

\* update, from the jump on
update_jump(L, t, P3) ==
    Let(LAMBDA P5 : update_flip(L, t, P3, P5), walk(jump(P3)))

\* update, from the vertical sweep on
update_y(L, t) ==
    IF ~t.y.signal THEN unwrap_panicked(L, t)
    ELSE Let(LAMBDA P3 : update_jump(L, t, P3), collide(t))

\* update, from the test of the horizontal sweep on
update_x(L, s) ==
    IF ~s.x.signal
    THEN Let(LAMBDA changed : changed_level(s, changed),
             level_change(L, s.player, s.x.position))
    ELSE Let(LAMBDA t : update_y(L, t), sweep_y(L, s))

\* Player::update, the tick
update(L, P) == Let(LAMBDA s : update_x(L, s), sweep_x(L, P))

-----------------------------------------------------------------------------
(* enum Editor *)

Limited(last_selected) == [mode |-> "Limited", last_selected |-> last_selected]
Full == [mode |-> "Full", last_selected |-> None]

toggled(L, tile_index) == [L EXCEPT !.tiles[tile_index + 1] = ~@]

(* The loop over the gems of toggle_tile_index.  `gem_index - 1` of a gem  *)
(* at 0 underflows: a panic where overflow is checked (the dev profile),   *)
(* usize::MAX, which no tile_index is, where it is not (release).          *)
gem_check(gem, tile_index, overflow_checks) ==
    IF gem = None THEN "pass"
    ELSE IF tile_index = Unwrap(gem) THEN "refuse"
    ELSE IF Unwrap(gem) = 0
    THEN IF overflow_checks THEN "panic" ELSE "pass"
    ELSE IF tile_index = Unwrap(gem) - 1 THEN "refuse"
    ELSE "pass"

gems_check(L, tile_index, overflow_checks) ==
    LET first == gem_check(L.limited_gem, tile_index, overflow_checks) IN
    IF first # "pass" THEN first
    ELSE gem_check(L.full_gem, tile_index, overflow_checks)

\* MUTANT of select: the tile selected before is left flipped
select_keeping_selected(E, tile_index, L, L1, P) ==
    IF E.mode = "Full"
    THEN [editor |-> E, levels |-> L1, value |-> TRUE, panics |-> FALSE]
    ELSE IF E.last_selected = Some(tile_index)
    THEN [editor |-> Limited(None), levels |-> L1, value |-> FALSE,
          panics |-> FALSE]
    ELSE [editor |-> Limited(Some(tile_index)), levels |-> L1, value |-> FALSE,
          panics |-> FALSE]

\* MUTANT of select: the flip of tile_index is kept when the revert of the
\* tile selected before is refused
select_without_rollback(E, tile_index, L, L1, P) ==
    IF E.mode = "Full"
    THEN [editor |-> E, levels |-> L1, value |-> TRUE, panics |-> FALSE]
    ELSE IF E.last_selected = Some(tile_index)
    THEN [editor |-> Limited(None), levels |-> L1, value |-> FALSE,
          panics |-> FALSE]
    ELSE IF E.last_selected # None
    THEN LET L2 == toggled(L1, Unwrap(E.last_selected)) IN
         IF ~(Unwrap(E.last_selected) < Len(L.tiles))
         THEN [editor |-> E, levels |-> L1, value |-> FALSE, panics |-> TRUE]
         ELSE IF is_intersecting(L2, P)
         THEN [editor |-> E, levels |-> L1, value |-> FALSE, panics |-> FALSE]
         ELSE [editor |-> Limited(Some(tile_index)), levels |-> L2,
               value |-> FALSE, panics |-> FALSE]
    ELSE [editor |-> Limited(Some(tile_index)), levels |-> L1, value |-> FALSE,
          panics |-> FALSE]

(* toggle_tile_index, the match on self: tile_index has been flipped (L1   *)
(* is L with that flip) and the player does not intersect.                 *)
select(E, tile_index, L, L1, P) ==
    IF E.mode = "Full"
    THEN [editor |-> E, levels |-> L1, value |-> TRUE, panics |-> FALSE]
    ELSE IF E.last_selected = Some(tile_index)
    THEN [editor |-> Limited(None), levels |-> L1, value |-> FALSE,
          panics |-> FALSE]
    ELSE IF E.last_selected # None
    THEN LET L2 == toggled(L1, Unwrap(E.last_selected)) IN
         IF ~(Unwrap(E.last_selected) < Len(L.tiles))
         THEN [editor |-> E, levels |-> L1, value |-> FALSE, panics |-> TRUE]
         ELSE IF is_intersecting(L2, P)
         THEN [editor |-> E, levels |-> L, value |-> FALSE, panics |-> FALSE]
         ELSE [editor |-> Limited(Some(tile_index)), levels |-> L2,
               value |-> FALSE, panics |-> FALSE]
    ELSE [editor |-> Limited(Some(tile_index)), levels |-> L1, value |-> FALSE,
          panics |-> FALSE]

(* Editor::toggle_tile_index: the editor and the grid after the call, what *)
(* it returned and whether it panicked.                                    *)
toggle_tile_index(E, tile_index, L, P, overflow_checks) ==
    LET refused == [editor |-> E, levels |-> L, value |-> FALSE, panics |-> FALSE]
        gems == gems_check(L, tile_index, overflow_checks)
        L1 == toggled(L, tile_index)
    IN
    IF gems = "panic" THEN [refused EXCEPT !.panics = TRUE]
    ELSE IF gems = "refuse" THEN refused
    ELSE IF E.mode = "Limited" /\ L.num_levels = 0
    THEN [refused EXCEPT !.panics = TRUE]
    ELSE IF E.mode = "Limited"
            /\ (L.level_index = L.num_levels - 1 \/ tile_index < LEVEL_HEIGHT)
    THEN refused
    ELSE IF ~(tile_index < Len(L.tiles)) THEN [refused EXCEPT !.panics = TRUE]
    ELSE IF is_intersecting(L1, P) THEN refused
    ELSE select(E, tile_index, L, L1, P)

\* Editor::force_undo_temporary_actions
force_undo_temporary_actions(E, L) ==
    IF E.mode = "Limited" /\ E.last_selected # None
    THEN [editor |-> Limited(None),
          levels |-> toggled(L, Unwrap(E.last_selected))]
    ELSE [editor |-> E, levels |-> L]

-----------------------------------------------------------------------------
(* The inputs *)

\* the characters of a text: the four of a tile, the terminator, another
Characters == {" ", "x", "e", "E", "|", "?"}

(* The solid tiles of an input grid: a floor, a pillar every third column, *)
(* so that no two levels of it are alike, nor like a new level, and a tile *)
(* over the floor of the first level, a ceiling to jump against.           *)
InputTile(x, y) == y < 1 \/ (x % 3 = 0 /\ y < 4) \/ (x = 7 /\ y = 2)

InputTiles(num_levels) ==
    [i \in 1..(num_levels * LEVEL_TILES) |->
        InputTile((i - 1) \div LEVEL_HEIGHT, (i - 1) % LEVEL_HEIGHT)]

(* A text of `width` columns with the gems at flat indices e_at and E_at   *)
(* (None: no gem), as Display lays it out.                                 *)
InputText(width, e_at, E_at) ==
    [k \in 1..LEVEL_HEIGHT |->
        [c \in 1..(width + 1) |->
            LET x == c - 1
                y == LEVEL_HEIGHT - k
            IN  IF c = width + 1 THEN "|"
                ELSE IF Some(x * LEVEL_HEIGHT + y) = e_at THEN "e"
                ELSE IF Some(x * LEVEL_HEIGHT + y) = E_at THEN "E"
                ELSE IF InputTile(x, y) THEN "x" ELSE " "]]

\* the files the program is started on: the gems in the second column
\* and near the end
InitText(num_levels) ==
    InputText(num_levels * (LEVEL_WIDTH - 1),
              Some(LEVEL_HEIGHT + 5), Some(num_levels * LEVEL_TILES - 6))

\* the arguments of index_of
IndexInputs ==
    {0, LEVEL_WIDTH - 1, LEVEL_WIDTH, LEVEL_WIDTH + 1}
        \X {0, LEVEL_HEIGHT, LEVEL_HEIGHT + 1}

\* the cells read: one of the active level, one of the level after it, and
\* an index out of bounds
CellInputs ==
    {<<LEVEL_WIDTH - 2, FLOOR_ROWS - 1>>, <<LEVEL_WIDTH - 1, LEVEL_HEIGHT - 1>>,
     <<LEVEL_WIDTH + 1, 0>>}

\* the cells written
WriteInputs == {<<LEVEL_WIDTH - 2, FLOOR_ROWS - 1>>, <<LEVEL_WIDTH + 1, 0>>}

\* the arguments of position_of_tile_index: the tiles of a few cells of the
\* window, and the tile in the middle of every level
TileCells ==
    {0, FLOOR_ROWS - 2, LEVEL_WIDTH - 1} \X {0, LEVEL_HEIGHT - 1}

TileIndexInputs(L) ==
    {Unwrap(index_of(L, index)) : index \in TileCells}
        \cup {offset_of_level(k) + LEVEL_TILES \div 2 : k \in 0..(L.num_levels - 1)}

\* the arguments of get_from_position
PositionInputs ==
    {-1, 0, SUBDIV + 1, LOGICAL_SCREEN_WIDTH - 1, LOGICAL_SCREEN_WIDTH}
        \X {-1, 0, LOGICAL_SCREEN_HEIGHT - 1, LOGICAL_SCREEN_HEIGHT}

(* The grids serialized: the input tiles, either gem unset or at one of a  *)
(* few flat indices, on solid tiles and on open ones, the two never equal. *)
GemInputs(num_levels) ==
    {None, Some(0), Some(FLOOR_ROWS), Some(LEVEL_HEIGHT + 1),
     Some(num_levels * LEVEL_TILES - 1)}

CodecLevels ==
    {Levels(InputTiles(n), n, i, i * (LEVEL_WIDTH - 1), e, E) :
        <<n, i, e, E>> \in
            {q \in (1..MaxLevels) \X (0..(MaxLevels - 1))
                    \X GemInputs(MaxLevels) \X GemInputs(MaxLevels) :
                /\ q[2] \in {0, q[1] - 1}
                /\ q[3] \in GemInputs(q[1]) /\ q[4] \in GemInputs(q[1])
                /\ (q[3] = None \/ q[3] # q[4])}}

\* the texts parsed: of a whole number of levels and not, with gems and without
CodecTexts ==
    {InputText(width, gems[1], gems[2]) :
        width \in {1, LEVEL_WIDTH - 2, LEVEL_WIDTH - 1, LEVEL_WIDTH,
                   2 * (LEVEL_WIDTH - 1)},
        gems \in {<<None, None>>, <<Some(FLOOR_ROWS), Some(0)>>}}

(* The edits of a text: a character replaced, dropped or added at the ends *)
(* of the first and the last line, a line dropped or added.                *)
Edits(s) ==
    {<<"replace", i, c, ch>> :
        i \in {0, Len(s) - 1}, c \in {0, Len(s[1]) - 2, Len(s[1]) - 1},
        ch \in Characters}
    \cup {<<"truncate", i>> : i \in {0, Len(s) - 1}}
    \cup {<<"append", i, ch>> : i \in {0, Len(s) - 1}, ch \in {"|", "x"}}
    \cup {<<"remove_line", i>> : i \in {0, Len(s) - 1}}
    \cup {<<"add_line">>}

Edited(s, e) ==
    IF e[1] = "replace" THEN
        IF e[3] >= 0 /\ e[3] < Len(At(s, e[2]))
        THEN [s EXCEPT ![e[2] + 1][e[3] + 1] = e[4]] ELSE s
    ELSE IF e[1] = "truncate" THEN
        [s EXCEPT ![e[2] + 1] = SubSeq(@, 1, Len(@) - 1)]
    ELSE IF e[1] = "append" THEN
        [s EXCEPT ![e[2] + 1] = Append(@, e[3])]
    ELSE IF e[1] = "remove_line" THEN
        SubSeq(s, 1, e[2]) \o SubSeq(s, e[2] + 2, Len(s))
    ELSE Append(s, s[Len(s)])

(* What the keyboard reports in a frame, is_down and is_pressed of the     *)
(* four key groups (jump, left, flip, right): nothing, a key pressed and   *)
(* held, a key held, a key pressed and released within the frame.          *)
Keys(down, pressed) ==
    [is_down |-> [i \in 0..3 |-> i \in down],
     is_pressed |-> [i \in 0..3 |-> i \in pressed]]

KeyInputs ==
    {Keys({}, {}), Keys({0}, {0}), Keys({2}, {2}), Keys({1}, {}), Keys({3}, {}),
     Keys({}, {0})}

(* The player somewhere in a run, with the ticks since it was last on the  *)
(* ground: standing on the floor (the top of row 0) or on a pillar (the    *)
(* top of row 3) at x, or in the air.                                      *)
Standing(x, row, velocity) ==
    [player |-> Player(<<x, (row + 1) * SUBDIV + SIZE \div 2>>, <<velocity, 0>>,
                       FALSE, TRUE, CYOTE_FRAMES, NoInputs, NoInputs),
     since_ground |-> 0]

InAir(position, velocity) ==
    [player |-> Player(position, velocity, FALSE, FALSE, 0, NoInputs, NoInputs),
     since_ground |-> CYOTE_FRAMES + 1]

\* a start of a run on the level of index level_index
On(level_index, start) ==
    [level_index |-> level_index, player |-> start.player,
     since_ground |-> start.since_ground]

(* The starts on the grid of InitText(2): the body is clear of the solid   *)
(* tiles, and a standing one has a solid tile under it.                    *)
PlayerInputs ==
    {\* Player::new
     On(0, InAir(player_new.position, player_new.velocity)),
     \* rising under the ceiling of column 7, five ticks into a jump
     On(0, InAir(<<7 * SUBDIV + SIZE, SUBDIV + SIZE \div 2 + 60>>, <<0, 10>>)),
     \* on the floor under that ceiling
     On(0, Standing(7 * SUBDIV + SIZE, 0, 0)),
     \* on the floor, walking out of the right edge
     On(0, Standing(LOGICAL_SCREEN_WIDTH - SIZE \div 2 - 2, 0, 6)),
     \* on the pillar of column 0, walking out of the left edge
     On(0, Standing(SIZE \div 2 + 2, 3, -6)),
     \* on the pillar of column 3: in its middle, over its left edge, and
     \* walking off its right edge
     On(0, Standing(3 * SUBDIV + SIZE, 3, 0)),
     On(0, Standing(3 * SUBDIV - 10, 3, 0)),
     On(0, Standing(4 * SUBDIV + SIZE \div 2 - 1, 3, 6)),
     \* on the last level, on the pillar its column 14 shares with column 0
     \* of the first level, walking out of the right edge
     On(1, Standing(LOGICAL_SCREEN_WIDTH - SIZE \div 2 - 2, 3, 6)),
     \* on the floor of the last level
     On(1, Standing(8 * SUBDIV + SIZE, 0, 0))}

(* A grid of one level with every tile solid: Player::new is inside it.    *)
SolidText ==
    [k \in 1..LEVEL_HEIGHT |-> [c \in 1..LEVEL_WIDTH |-> IF c = LEVEL_WIDTH THEN "|" ELSE "x"]]

-----------------------------------------------------------------------------
(* The grid's operations, called in any order *)

(* Before the first frame.  base is the tiles when the editor was opened.  *)
(* is_down and is_pressed are the keys at the     *)
(* last update_input; latched, the key groups down at some update_input    *)
(* since the last tick that ran to its end before the last update_input;   *)
(* ticked, that a tick has run to its end since the last update_input.     *)
hist_new ==
    [is_down |-> NoInputs, is_pressed |-> NoInputs,
     latched |-> NoInputs, ticked |-> FALSE,
     frames |-> 0, ticks |-> 0, updates |-> 0,
     since_ground |-> CYOTE_FRAMES + 1,
     player |-> player_new, editor |-> Limited(None), base |-> <<>>]

\* no player and no editor take part
Idle ==
    /\ player = player_new
    /\ editor = Limited(None)
    /\ hist = hist_new

Call(name, args, panics, at_panic, after, value) ==
    /\ ~panicked
    /\ op' = [name |-> name, args |-> args]
    /\ prev' = levels
    /\ IF panics
       THEN panicked' = TRUE /\ levels' = at_panic /\ ret' = None
       ELSE panicked' = FALSE /\ levels' = after /\ ret' = value
    /\ UNCHANGED <<text, player, editor, hist>>

\* main: fs::read_to_string(PATH_TO_LEVELS).unwrap().parse::<Levels>().unwrap(),
\* or Levels::new()
Start(texts) ==
    /\ \/ text = <<>> /\ levels = new
       \/ text \in texts /\ from_str(text).ok /\ levels = from_str(text).levels
    /\ prev = levels
    /\ op = [name |-> "init", args |-> <<>>]
    /\ ret = None
    /\ panicked = FALSE
    /\ Idle

NextLevel ==
    Call("next_level", <<>>, next_level_panics(levels),
         next_level_at_panic(levels), next_level(levels), None)

PreviousLevel ==
    Call("previous_level", <<>>, previous_level_panics(levels),
         levels, previous_level(levels), None)

InsertLevel ==
    /\ levels.num_levels < MaxLevels
    /\ \E index \in 0..(levels.num_levels + 1) :
        Call("insert_level", <<index>>, insert_level_panics(levels, index),
             insert_level_at_panic(levels, index), insert_level(levels, index), None)

RemoveLevel ==
    \E index \in 0..levels.num_levels :
        Call("remove_level", <<index>>, remove_level_panics(levels, index),
             remove_level_at_panic(levels, index), remove_level(levels, index), None)

IndexOf ==
    \E index \in IndexInputs :
        Call("index_of", index, index_of_panics(levels, index),
             levels, levels, index_of(levels, index))

Get ==
    \E index \in CellInputs :
        Call("get", index, index_of_panics(levels, index),
             levels, levels, get(levels, index))

IndexMut ==
    \E index \in WriteInputs, value \in BOOLEAN :
        Call("index_mut", <<index[1], index[2], value>>,
             index_mut_panics(levels, index),
             levels, index_mut(levels, index, value), None)

PositionOfTileIndex ==
    \E tile_index \in TileIndexInputs(levels) :
        Call("position_of_tile_index", <<tile_index>>,
             position_of_tile_index_panics(levels, tile_index),
             levels, levels, position_of_tile_index(levels, tile_index))

GetFromPosition ==
    \E position \in PositionInputs :
        Call("get_from_position", position,
             get_from_position_panics(levels, position),
             levels, levels, get_from_position(levels, position))

(* levels.to_string(), the text written to PATH_TO_LEVELS *)
Serialize ==
    /\ ~panicked
    /\ text = <<>>
    /\ op' = [name |-> "to_string", args |-> <<>>]
    /\ prev' = levels
    /\ ret' = None
    /\ IF to_string_panics(levels)
       THEN panicked' = TRUE /\ text' = text
       ELSE panicked' = FALSE /\ text' = to_string(levels)
    /\ UNCHANGED <<levels, player, editor, hist>>

(* the text is edited before it is parsed *)
EditText ==
    /\ ~panicked
    /\ op.name = "init" /\ text # <<>>
    /\ \E e \in Edits(text) :
        /\ Edited(text, e) # text
        /\ text' = Edited(text, e)
        /\ op' = [name |-> "edit", args |-> e]
    /\ UNCHANGED <<levels, prev, ret, panicked, player, editor, hist>>

(* text.parse::<Levels>().unwrap() *)
Parse ==
    /\ ~panicked
    /\ text # <<>> /\ op.name # "from_str"
    /\ op' = [name |-> "from_str", args |-> <<>>]
    /\ prev' = levels
    /\ LET r == from_str(text) IN
       IF r.ok
       THEN panicked' = FALSE /\ levels' = r.levels /\ ret' = <<"Ok">>
       ELSE panicked' = TRUE /\ levels' = levels /\ ret' = r.error
    /\ UNCHANGED <<text, player, editor, hist>>

(* The level operations, from a grid of one or two levels *)
Init == Start({InitText(n) : n \in 1..2})

Next ==
    \/ NextLevel
    \/ PreviousLevel
    \/ InsertLevel
    \/ RemoveLevel

Spec == Init /\ [][Next]_vars

(* Addressing: the active level moves, cells are looked up, written and    *)
(* read.                                                                   *)
InitAddressing == Start({InitText(n) : n \in 1..MaxLevels})

NextAddressing ==
    \/ NextLevel
    \/ PreviousLevel
    \/ IndexOf
    \/ Get
    \/ IndexMut
    \/ PositionOfTileIndex
    \/ GetFromPosition

SpecAddressing == InitAddressing /\ [][NextAddressing]_vars

(* The codec: a grid is written and parsed back; a text, as it is or      *)
(* edited, is parsed.                                                     *)
InitCodec ==
    /\ \/ levels \in CodecLevels /\ text = <<>>
       \/ levels = new /\ text \in CodecTexts
    /\ prev = levels
    /\ op = [name |-> "init", args |-> <<>>]
    /\ ret = None
    /\ panicked = FALSE
    /\ Idle

NextCodec ==
    \/ Serialize
    \/ EditText
    \/ Parse

SpecCodec == InitCodec /\ [][NextCodec]_vars

(* The player: frames of one update_input and then 0 to                    *)
(* MAXIMUM_UPDATES_PER_FRAME ticks, as main's loop makes them.             *)
UpdateInput ==
    /\ ~panicked
    /\ hist.frames < MaxFrames
    /\ \E keys \in KeyInputs :
        /\ player' = update_input(player, keys.is_down, keys.is_pressed)
        /\ hist' = [hist EXCEPT !.is_down = keys.is_down,
                                 !.is_pressed = keys.is_pressed,
                                 !.latched = [i \in 0..3 |->
                                    (~hist.ticked /\ @[i]) \/ keys.is_down[i]],
                                 !.ticked = FALSE,
                                 !.frames = @ + 1, !.updates = 0,
                                 !.player = player, !.editor = editor]
        /\ op' = [name |-> "update_input", args |-> <<keys>>]
    /\ prev' = levels
    /\ ret' = None
    /\ UNCHANGED <<levels, panicked, text, editor>>

Update ==
    /\ ~panicked
    /\ hist.frames > 0
    /\ hist.updates < MAXIMUM_UPDATES_PER_FRAME
    /\ hist.ticks < MaxTicks
    /\ LET r == update(levels, player) IN
        /\ player' = r.player
        /\ levels' = r.levels
        /\ panicked' = r.panics
        /\ ret' = r
        /\ hist' = [hist EXCEPT
                        !.ticks = @ + 1, !.updates = @ + 1,
                        !.ticked = @ \/ r.signal,
                        !.since_ground =
                            IF r.grounded THEN 0
                            ELSE IF ~r.signal THEN @
                            ELSE Min(@ + 1, CYOTE_FRAMES + 1),
                        !.player = player, !.editor = editor]
    /\ op' = [name |-> "update", args |-> <<>>]
    /\ prev' = levels
    /\ UNCHANGED <<text, editor>>

InitPlayer ==
    /\ \/ /\ text = InitText(2)
          /\ \E start \in PlayerInputs :
                /\ levels = (IF start.level_index = 0 THEN from_str(text).levels
                              ELSE next_level(from_str(text).levels))
                /\ player = start.player
                /\ hist = [hist_new EXCEPT !.since_ground = start.since_ground,
                                            !.player = start.player]
       \/ /\ text = SolidText
          /\ levels = from_str(text).levels
          /\ player = player_new
          /\ hist = [hist_new EXCEPT !.since_ground = CYOTE_FRAMES + 1,
                                      !.player = player_new]
    /\ prev = levels
    /\ op = [name |-> "init", args |-> <<>>]
    /\ ret = None
    /\ panicked = FALSE
    /\ editor = Limited(None)

NextPlayer ==
    \/ UpdateInput
    \/ Update

SpecPlayer == InitPlayer /\ [][NextPlayer]_vars

-----------------------------------------------------------------------------
(* The editor, on a grid of two levels with the player in it *)

\* the files edited: the gems as in InitText, or in the first column
EditorTexts ==
    {InitText(2),
     InputText(2 * (LEVEL_WIDTH - 1), Some(0), Some(FLOOR_ROWS + 2))}

(* The players: Player::new, in the air in the middle of the screen, and   *)
(* one on the floor walking to the right against the pillar of column 3.   *)
EditorPlayers ==
    {player_new, Standing(3 * SUBDIV - SIZE \div 2, 0, 6).player}

(* The tiles clicked: each gem's and the one before it, one of the bottom  *)
(* row of the first column, the tile the walking player is in, two of the  *)
(* pillar beside it, and the tile the new player is in.                    *)
EditorTileInputs(L) ==
    {i \in UNION {{Unwrap(gem), Unwrap(gem) - 1} :
                    gem \in {L.limited_gem, L.full_gem} \ {None}} : i >= 0}
        \cup {FLOOR_ROWS,
              2 * LEVEL_HEIGHT + 1, 3 * LEVEL_HEIGHT + 1, 3 * LEVEL_HEIGHT + 2,
              (LEVEL_WIDTH \div 2) * LEVEL_HEIGHT + LEVEL_HEIGHT \div 2}

(* main: editor.toggle_tile_index(tile_index, &mut levels, &mut player),  *)
(* in a build where arithmetic overflow panics (the dev profile) or in one *)
(* where it wraps (release).                                               *)
ToggleTileIndex ==
    /\ ~panicked
    /\ \E tile_index \in EditorTileInputs(levels), overflow_checks \in BOOLEAN :
        LET r == toggle_tile_index(editor, tile_index, levels, player,
                                   overflow_checks)
        IN  /\ editor' = r.editor
            /\ levels' = r.levels
            /\ panicked' = r.panics
            /\ ret' = r.value
            /\ op' = [name |-> "toggle_tile_index", args |-> <<tile_index>>]
    /\ prev' = levels
    /\ hist' = [hist EXCEPT !.player = player, !.editor = editor]
    /\ UNCHANGED <<text, player>>

\* main: editor.force_undo_temporary_actions(&mut levels)
ForceUndoTemporaryActions ==
    /\ ~panicked
    /\ LET r == force_undo_temporary_actions(editor, levels) IN
        /\ editor' = r.editor
        /\ levels' = r.levels
    /\ op' = [name |-> "force_undo_temporary_actions", args |-> <<>>]
    /\ prev' = levels
    /\ ret' = None
    /\ hist' = [hist EXCEPT !.player = player, !.editor = editor]
    /\ UNCHANGED <<panicked, text, player>>

(* The editor is opened, in either mode and on either level, in the last   *)
(* frame of a run, with MaxEditorTicks ticks to go and no key down.        *)
InitEditor ==
    /\ text \in EditorTexts
    /\ levels \in {from_str(text).levels, next_level(from_str(text).levels)}
    /\ player \in EditorPlayers
    /\ editor \in {Limited(None), Full}
    /\ hist = [hist_new EXCEPT !.player = player, !.editor = editor,
                                !.base = levels.tiles,
                                !.frames = MaxFrames,
                                !.ticks = MaxTicks - MaxEditorTicks,
                                !.since_ground =
                                    IF player.on_ground THEN 0 ELSE @]
    /\ prev = levels
    /\ op = [name |-> "init", args |-> <<>>]
    /\ ret = None
    /\ panicked = FALSE

NextEditor ==
    \/ ToggleTileIndex
    \/ ForceUndoTemporaryActions
    \/ Update

SpecEditor == InitEditor /\ [][NextEditor]_vars

-----------------------------------------------------------------------------
(* The main loop left to run, with no key touched: a body dropped on a     *)
(* floor                                                                   *)

\* one level whose row 0 is solid in every column, every other row open
FloorLevels ==
    Levels([i \in 1..LEVEL_TILES |-> (i - 1) % LEVEL_HEIGHT = 0],
           1, 0, 0, None, None)

\* the body at (7, 5), air_kind false, at rest, no input
Dropped ==
    Player(<<7 * SUBDIV, 5 * SUBDIV>>, <<0, 0>>, FALSE, FALSE, 0,
           NoInputs, NoInputs)

InitLoop ==
    /\ levels = FloorLevels
    /\ text = to_string(levels)
    /\ player = Dropped
    /\ editor = Limited(None)
    /\ hist = [hist_new EXCEPT !.player = player, !.base = levels.tiles]
    /\ prev = levels
    /\ op = [name |-> "init", args |-> <<>>]
    /\ ret = None
    /\ panicked = FALSE

\* main: a frame begins, player.update_input() finds no key down
Frame ==
    /\ ~panicked
    /\ player' = update_input(player, NoInputs, NoInputs)
    /\ hist' = [hist EXCEPT !.is_down = NoInputs, !.is_pressed = NoInputs,
                             !.latched = [i \in 0..3 |->
                                            ~hist.ticked /\ @[i]],
                             !.ticked = FALSE, !.updates = 0,
                             !.player = player, !.editor = editor]
    /\ op' = [name |-> "update_input", args |-> <<Keys({}, {})>>]
    /\ prev' = levels
    /\ ret' = None
    /\ UNCHANGED <<levels, panicked, text, editor>>

\* main: one of the at most MAXIMUM_UPDATES_PER_FRAME ticks of a frame
Tick ==
    /\ ~panicked
    /\ op.name # "init"
    /\ hist.updates < MAXIMUM_UPDATES_PER_FRAME
    /\ LET r == update(levels, player) IN
        /\ player' = r.player
        /\ levels' = r.levels
        /\ panicked' = r.panics
        /\ ret' = r
        /\ hist' = [hist EXCEPT
                        !.updates = @ + 1,
                        !.ticked = @ \/ r.signal,
                        !.since_ground =
                            IF r.grounded THEN 0
                            ELSE IF ~r.signal THEN @
                            ELSE Min(@ + 1, CYOTE_FRAMES + 1),
                        !.player = player, !.editor = editor]
    /\ op' = [name |-> "update", args |-> <<>>]
    /\ prev' = levels
    /\ UNCHANGED <<text, editor>>

NextLoop ==
    \/ Frame
    \/ Tick

(* The loop never ends: frames go on, and the time that passes brings      *)
(* ticks: update_time grows by the frame time and a tick is made for every *)
(* whole unit of it.                                                       *)
SpecLoop ==
    InitLoop /\ [][NextLoop]_vars /\ WF_vars(Frame) /\ WF_vars(Tick)

-----------------------------------------------------------------------------
(* The level operations: C1 to C5 *)

\* the call that led here returned
Returned(name) == op.name = name /\ ~panicked

(* C1: after any sequence of next_level, previous_level, insert_level(at)  *)
(* with at <= num_levels and remove_level(at) with at < num_levels, the    *)
(* active level is one of the levels: 0 <= level_index < num_levels.       *)
C1_LevelIndexInRange ==
    ~panicked =>
        /\ 0 <= levels.level_index
        /\ levels.level_index < levels.num_levels

(* C2: after any sequence of the four level operations that satisfy their  *)
(* preconditions, tiles.len() = num_levels * LEVEL_TILE_COUNT.             *)
C2_TilesLength ==
    ~panicked => Len(levels.tiles) = levels.num_levels * LEVEL_TILES

\* a level has been inserted and a level removed
C2_Witness ==
    /\ Returned("remove_level")
    /\ levels.num_levels = 2
    /\ \E i \in 0..(LEVEL_TILES - 1) :
            At(levels.tiles, i) = (i % LEVEL_HEIGHT < FLOOR_ROWS)
            /\ At(levels.tiles, i) # InputTile(i \div LEVEL_HEIGHT, i % LEVEL_HEIGHT)

(* C3: after any sequence of the four level operations, x_offset =         *)
(* level_index * (LEVEL_WIDTH - 1), and a next_level followed by a         *)
(* previous_level, or the reverse, returns level_index and x_offset to     *)
(* what they were.                                                         *)
C3_OffsetAndRoundTrip ==
    [][/\ ~panicked' =>
            levels'.x_offset = levels'.level_index * (LEVEL_WIDTH - 1)
       /\ (\/ Returned("next_level") /\ op'.name = "previous_level"
           \/ Returned("previous_level") /\ op'.name = "next_level")
          /\ ~panicked'
          => /\ levels'.level_index = prev.level_index
             /\ levels'.x_offset = prev.x_offset]_vars

(* C4: insert_level(at) followed by remove_level(at) restores tiles and    *)
(* num_levels.  As claimed, level_index is restored if and only if it was  *)
(* not `at` before the pair.                                               *)
InsertThenRemove ==
    /\ Returned("insert_level")
    /\ op'.name = "remove_level" /\ op'.args = op.args
    /\ ~panicked'

C4_RestoredUnlessOnBoundary ==
    [][InsertThenRemove =>
        /\ levels'.tiles = prev.tiles
        /\ levels'.num_levels = prev.num_levels
        /\ (levels'.level_index = prev.level_index
                <=> prev.level_index # op.args[1])]_vars

(* C4, as the code has it: insert_level(at) followed by remove_level(at)   *)
(* restores tiles and num_levels, and restores level_index and x_offset    *)
(* exactly when the active level was one of the levels of the grid (or the *)
(* grid had no level), whether it was `at` or not.                         *)
C4_Restored ==
    [][InsertThenRemove =>
        /\ levels'.tiles = prev.tiles
        /\ levels'.num_levels = prev.num_levels
        /\ (levels'.level_index = prev.level_index /\ levels'.x_offset = prev.x_offset)
                <=> (prev.level_index < prev.num_levels \/ prev.num_levels = 0)]_vars

\* remove_level(at) has undone an insert_level(at) made with level `at` active
C4_Witness ==
    /\ Returned("remove_level")
    /\ levels.level_index = op.args[1]
    /\ levels.level_index < levels.num_levels
    /\ prev = insert_level(levels, op.args[1])

(* C5: insert_level(at) leaves the tiles of the levels before `at` where   *)
(* they were and shifts those of the levels from `at` on by                *)
(* LEVEL_TILE_COUNT; every column of the new level has rows 0..4 solid and *)
(* the rows above open; the active level, one of the levels, shows the     *)
(* tiles it showed.                                                        *)
C5_InsertLevelFrame ==
    Returned("insert_level") =>
        LET at == op.args[1]
            offset == at * LEVEL_TILES
        IN  /\ Len(levels.tiles) = Len(prev.tiles) + LEVEL_TILES
            /\ \A i \in 0..(Len(prev.tiles) - 1) :
                    At(prev.tiles, i)
                        = At(levels.tiles, IF i < offset THEN i ELSE i + LEVEL_TILES)
            /\ \A column \in 0..(LEVEL_WIDTH - 2), row \in 0..(LEVEL_HEIGHT - 1) :
                    At(levels.tiles, offset + column * LEVEL_HEIGHT + row)
                        = (row < 5)
            /\ prev.level_index < prev.num_levels =>
                \A column \in 0..(LEVEL_WIDTH - 2), row \in 0..(LEVEL_HEIGHT - 1) :
                    get(levels, <<column, row>>) = get(prev, <<column, row>>)

\* a level has been inserted in front of the active one, not the first
C5_Witness ==
    /\ Returned("insert_level")
    /\ op.args[1] > 0
    /\ prev.level_index = op.args[1]
    /\ prev.level_index < prev.num_levels

-----------------------------------------------------------------------------
(* The text codec: C6 and C7 *)

\* the text parsed is the one Display writes of the grid `prev`
ParsedBack == op.name = "from_str" /\ text = to_string(prev)

IsGem(L, i) == Some(i) = L.limited_gem \/ Some(i) = L.full_gem

(* C6, as claimed: for a grid of 1 to 4 levels, any tiles and any gems,    *)
(* unset or at two different tile indices, parsing the text of the grid    *)
(* succeeds and yields the same tiles, gems and num_levels.                *)
C6_RoundTrip ==
    ParsedBack =>
        /\ ret = <<"Ok">>
        /\ levels.tiles = prev.tiles
        /\ levels.limited_gem = prev.limited_gem
        /\ levels.full_gem = prev.full_gem
        /\ levels.num_levels = prev.num_levels

(* C6, as the code has it: parsing the text of the grid succeeds and       *)
(* yields the same gems and num_levels, and the same tiles but for the     *)
(* tile of a gem, which is read back open; so the tiles are the same       *)
(* exactly when every gem is on an open tile.                              *)
C6_RoundTripButGemTiles ==
    ParsedBack =>
        /\ ret = <<"Ok">>
        /\ levels.limited_gem = prev.limited_gem
        /\ levels.full_gem = prev.full_gem
        /\ levels.num_levels = prev.num_levels
        /\ Len(levels.tiles) = Len(prev.tiles)
        /\ \A i \in 0..(Len(prev.tiles) - 1) :
                At(levels.tiles, i) = (~IsGem(prev, i) /\ At(prev.tiles, i))
        /\ levels.tiles = prev.tiles
                <=> \A i \in 0..(Len(prev.tiles) - 1) :
                        IsGem(prev, i) => ~At(prev.tiles, i)

\* a grid of several levels with both gems, on open tiles, has been written
\* and parsed back
C6_Witness ==
    /\ ParsedBack /\ ~panicked
    /\ prev.num_levels > 1
    /\ prev.level_index > 0
    /\ prev.limited_gem # None /\ prev.full_gem # None
    /\ ~At(prev.tiles, Unwrap(prev.limited_gem))
    /\ ~At(prev.tiles, Unwrap(prev.full_gem))
    /\ levels.tiles = prev.tiles

(* What a text has to be for C7: LEVEL_HEIGHT lines of one length, each    *)
(* of at least one tile character and then '|', 'e' and 'E' at most once,  *)
(* the tiles a multiple of LEVEL_TILE_COUNT.                               *)
TileCharacters == {" ", "x", "e", "E"}

Occurrences(s, ch) ==
    Cardinality({p \in (1..Len(s)) \X (1..Len(s[1])) :
                    p[2] <= Len(s[p[1]]) /\ s[p[1]][p[2]] = ch})

WellFormed(s) ==
    /\ Len(s) = LEVEL_HEIGHT
    /\ Len(s[1]) >= 2
    /\ \A k \in 1..Len(s) :
            /\ Len(s[k]) = Len(s[1])
            /\ s[k][Len(s[k])] = "|"
            /\ \A c \in 1..(Len(s[k]) - 1) : s[k][c] \in TileCharacters
    /\ Occurrences(s, "e") <= 1
    /\ Occurrences(s, "E") <= 1
    /\ ((Len(s[1]) - 1) * LEVEL_HEIGHT) % LEVEL_TILES = 0

(* C7: parsing returns a grid for a well-formed text and an error, no      *)
(* grid, for any other: a line count other than LEVEL_HEIGHT, a tile       *)
(* character outside {' ', 'x', 'e', 'E'}, a second 'e' or 'E', a line     *)
(* not ending with exactly one '|' at the column of every other line, a    *)
(* tile count not a multiple of LEVEL_TILE_COUNT.  A grid parsed has       *)
(* num_levels >= 1, tiles.len() = num_levels * LEVEL_TILE_COUNT,           *)
(* level_index = 0, x_offset = 0 and its gems distinct and < tiles.len().  *)
C7_ParseErrors ==
    op.name = "from_str" =>
        /\ ret = <<"Ok">> <=> WellFormed(text)
        /\ ret # <<"Ok">> =>
                /\ panicked /\ levels = prev
                /\ ret[1] \in {"InvalidHeight", "InvalidWidth", "InvalidTileCharacter",
                                "InvalidEndingCharacter", "LineEndsEarly", "DuplicateGem"}
                /\ Len(text) # LEVEL_HEIGHT <=> ret[1] = "InvalidHeight"
        /\ ret = <<"Ok">> =>
                /\ ~panicked
                /\ levels.num_levels >= 1
                /\ Len(levels.tiles) = levels.num_levels * LEVEL_TILES
                /\ levels.level_index = 0
                /\ levels.x_offset = 0
                /\ \A gem \in {levels.limited_gem, levels.full_gem} :
                        IsSome(gem) => Unwrap(gem) < Len(levels.tiles)
                /\ IsSome(levels.limited_gem) => levels.limited_gem # levels.full_gem

\* a text with a second 'e' has been refused
C7_Witness ==
    /\ op.name = "from_str"
    /\ ret = <<"DuplicateGem", "e">>
    /\ Len(text) = LEVEL_HEIGHT
    /\ Occurrences(text, "e") = 2

-----------------------------------------------------------------------------
(* Addressing: C8 to C10 *)

(* C8: index_of(col, row) returns no index exactly when col > LEVEL_WIDTH  *)
(* or row > LEVEL_HEIGHT, and otherwise ((col + x_offset) * LEVEL_HEIGHT   *)
(* + row) mod tiles.len(), a valid index into tiles; a boolean written at  *)
(* (col, row), col < LEVEL_WIDTH - 1 and row < LEVEL_HEIGHT, is the value  *)
(* get reads back at (col, row).                                           *)
C8_IndexOfAndRoundTrip ==
    /\ op.name = "index_of" =>
            LET col == op.args[1]
                row == op.args[2]
            IN  /\ ~panicked
                /\ ret = None <=> (col > LEVEL_WIDTH \/ row > LEVEL_HEIGHT)
                /\ ret # None =>
                        /\ Unwrap(ret) = ((col + levels.x_offset) * LEVEL_HEIGHT + row)
                                            % Len(levels.tiles)
                        /\ Unwrap(ret) \in 0..(Len(levels.tiles) - 1)
    /\ (op.name = "index_mut"
            /\ op.args[1] < LEVEL_WIDTH - 1 /\ op.args[2] < LEVEL_HEIGHT) =>
            LET index == <<op.args[1], op.args[2]>> IN
                /\ ~panicked
                /\ index_of(levels, index) # None
                /\ get(levels, index) = Some(op.args[3])
    /\ (op.name = "get"
            /\ op.args[1] < LEVEL_WIDTH - 1 /\ op.args[2] < LEVEL_HEIGHT) =>
            /\ ~panicked
            /\ ret = Some(At(levels.tiles,
                            ((op.args[1] + levels.x_offset) * LEVEL_HEIGHT + op.args[2])
                                % Len(levels.tiles)))

\* the value written at a cell of a level other than the first, not the
\* value it had, has been read back
C8_Witness ==
    /\ Returned("get")
    /\ op.args[1] < LEVEL_WIDTH - 1 /\ op.args[2] < LEVEL_HEIGHT
    /\ levels.level_index > 0
    /\ ret # None
    /\ Unwrap(ret) # InputTile(op.args[1] + levels.x_offset, op.args[2])

(* C9: addressing is circular over the strip: for every level k and row <  *)
(* LEVEL_HEIGHT, index_of(LEVEL_WIDTH - 1, row) with level k active is     *)
(* index_of(0, row) with level (k + 1) mod num_levels active; with the     *)
(* last level active, column LEVEL_WIDTH - 1 of row 0 is flat index 0.     *)
C9_Circular ==
    /\ Returned("next_level") =>
            /\ levels.level_index = (prev.level_index + 1) % prev.num_levels
            /\ \A row \in 0..(LEVEL_HEIGHT - 1) :
                    /\ index_of(prev, <<LEVEL_WIDTH - 1, row>>) # None
                    /\ index_of(prev, <<LEVEL_WIDTH - 1, row>>)
                            = index_of(levels, <<0, row>>)
    /\ (~panicked /\ levels.level_index = levels.num_levels - 1) =>
            index_of(levels, <<LEVEL_WIDTH - 1, 0>>) = Some(0)
    /\ (Returned("index_of") /\ op.args = <<LEVEL_WIDTH - 1, 0>>
            /\ levels.level_index = levels.num_levels - 1) =>
            ret = Some(0)

\* the last of several levels was active and index_of(LEVEL_WIDTH - 1, 0)
\* has been called
C9_Witness ==
    /\ Returned("index_of") /\ op.args = <<LEVEL_WIDTH - 1, 0>>
    /\ levels.num_levels > 1
    /\ levels.level_index = levels.num_levels - 1
    /\ ret = Some(0)

InRange(p, limit) == 0 <= p /\ p < limit

\* the tile of the cell (floor(X), floor(Y)), clamped into the grid
CellOfPosition(L, X, Y) ==
    At(L.tiles, Unwrap(index_of(L, <<Min(X \div SUBDIV, LEVEL_WIDTH - 1),
                                      Min(Y \div SUBDIV, LEVEL_HEIGHT - 1)>>)))

(* C10, as claimed: get_from_position(point), Y within [0,                 *)
(* LOGICAL_SCREEN_HEIGHT) and X out of the logical screen, returns solid   *)
(* for X < 0 and open for X >= LOGICAL_SCREEN_WIDTH; X in range and Y out  *)
(* of range, or both out of range, returns no tile; both in range returns  *)
(* the tile of the cell (floor(X), floor(Y)) clamped into the grid.        *)
C10_SolidLeftOpenRight ==
    Returned("get_from_position") =>
        LET X == op.args[1]
            Y == op.args[2]
            XIn == InRange(X, LOGICAL_SCREEN_WIDTH)
            YIn == InRange(Y, LOGICAL_SCREEN_HEIGHT)
        IN  /\ (YIn /\ X < 0) => ret = Some(TRUE)
            /\ (YIn /\ X >= LOGICAL_SCREEN_WIDTH) => ret = Some(FALSE)
            /\ ~YIn => ret = None
            /\ (XIn /\ YIn) => ret = Some(CellOfPosition(levels, X, Y))

(* C10, as the code has it: X within [0, LOGICAL_SCREEN_WIDTH) and Y out   *)
(* of the logical screen, returns solid for Y < 0 and open for Y >=        *)
(* LOGICAL_SCREEN_HEIGHT; X out of range, whatever Y, returns no tile;     *)
(* both in range returns the tile of the cell (floor(X), floor(Y))         *)
(* clamped into the grid.                                                  *)
C10_SolidBelowOpenAbove ==
    op.name = "get_from_position" =>
        LET X == op.args[1]
            Y == op.args[2]
            XIn == InRange(X, LOGICAL_SCREEN_WIDTH)
            YIn == InRange(Y, LOGICAL_SCREEN_HEIGHT)
        IN  /\ ~panicked
            /\ (XIn /\ Y < 0) => ret = Some(TRUE)
            /\ (XIn /\ Y >= LOGICAL_SCREEN_HEIGHT) => ret = Some(FALSE)
            /\ ~XIn => ret = None
            /\ (XIn /\ YIn) => ret = Some(CellOfPosition(levels, X, Y))

\* a point under the screen has been looked up on a level other than the
\* first
C10_Witness ==
    /\ Returned("get_from_position")
    /\ InRange(op.args[1], LOGICAL_SCREEN_WIDTH)
    /\ op.args[2] < 0
    /\ levels.level_index > 0
    /\ ret = Some(TRUE)

(* C11: position_of_tile_index is the inverse of index_of within the       *)
(* window of the active level: for every (col, row), col < LEVEL_WIDTH and *)
(* row < LEVEL_HEIGHT, position_of_tile_index(index_of(col, row)) is the   *)
(* level-local point (col, row), the wraparound at the right edge of the   *)
(* last level included; it is nothing for a flat index outside the window. *)
WindowCells == (0..(LEVEL_WIDTH - 1)) \X (0..(LEVEL_HEIGHT - 1))

C11_InverseOfIndexOf ==
    Returned("position_of_tile_index") =>
        LET cells == {index \in WindowCells :
                        index_of(levels, index) = Some(op.args[1])}
        IN  /\ \A index \in cells : ret = Some(index)
            /\ cells = {} => ret = None

-----------------------------------------------------------------------------
(* The player: C12 to C17 *)

\* a tick has been made, of the player hist.player on the grid prev
Ticked == op.name = "update"

\* the tick ran to its end: the horizontal sweep gave a signal
Completed == Ticked /\ ~panicked /\ ret.signal

\* the tick was cut short to change level
Aborted == Ticked /\ ~ret.signal

(* C12, as claimed: gravity() is +GRAVITY when air_kind is false and       *)
(* -GRAVITY when it is true, and every tick begins by adding it to         *)
(* velocity.y, so that toggling air_kind inverts the direction of fall.    *)
C12_GravityDownWhenTrue ==
    (Ticked /\ ~ret.y_collision /\ ~ret.jumped) =>
        player.velocity[2] = hist.player.velocity[2]
            + (IF hist.player.air_kind THEN -GRAVITY ELSE GRAVITY)

(* C12, as the code has it: gravity() is -GRAVITY when air_kind is false   *)
(* and +GRAVITY when it is true; every tick begins by adding it to         *)
(* velocity.y, and toggling air_kind inverts the direction of fall.        *)
C12_GravityDownWhenFalse ==
    /\ Ticked =>
            ret.swept_velocity \in
                {0, hist.player.velocity[2]
                        + (IF hist.player.air_kind THEN GRAVITY ELSE -GRAVITY)}
    /\ (Ticked /\ ~ret.y_collision) => ret.swept_velocity # 0
            \/ hist.player.velocity[2] = -gravity(hist.player)
    /\ (Ticked /\ ~ret.y_collision /\ ~ret.jumped) =>
            player.velocity[2] = hist.player.velocity[2]
                + (IF hist.player.air_kind THEN GRAVITY ELSE -GRAVITY)
    /\ gravity([player EXCEPT !.air_kind = ~@]) = -gravity(player)

\* a tick of free fall with air_kind true: velocity.y has grown
C12_Witness ==
    /\ Completed
    /\ hist.player.air_kind
    /\ ~ret.y_collision /\ ~ret.jumped
    /\ player.velocity[2] = hist.player.velocity[2] + GRAVITY

(* C13: in a tick whose horizontal sweep yields no signal the player       *)
(* changes level and the rest of the tick is not made: past the right edge *)
(* the grid goes to the next level, circularly, and position.x becomes     *)
(* SIZE / 2; past the left edge it goes to the previous level, circularly, *)
(* and position.x becomes LOGICAL_SCREEN_WIDTH - SIZE / 2; position.y,     *)
(* velocity.x, air_kind, on_ground, the coyote counter and the tiles are   *)
(* as they were.  In every other tick level_index is as it was.  The body  *)
(* is where the horizontal sweep has left it when it gave no signal.       *)
C13_LevelChange ==
    /\ Aborted =>
        LET before == hist.player
            moved == ret.swept_position[1]
            right == moved + corner_offset(1) >= LOGICAL_SCREEN_WIDTH
            left == moved + corner_offset(-1) < 0
        IN  /\ ~panicked
            /\ right \/ left
            /\ right =>
                /\ levels.level_index = (prev.level_index + 1) % prev.num_levels
                /\ player.position[1] = SIZE \div 2
            /\ left =>
                /\ levels.level_index =
                        (prev.level_index + prev.num_levels - 1) % prev.num_levels
                /\ player.position[1] = LOGICAL_SCREEN_WIDTH - SIZE \div 2
            /\ levels.x_offset = levels.level_index * (LEVEL_WIDTH - 1)
            /\ player.position[2] = before.position[2]
            /\ player.velocity[1] = before.velocity[1]
            /\ player.air_kind = before.air_kind
            /\ player.on_ground = before.on_ground
            /\ player.cyote_time = before.cyote_time
            /\ player.inputs_ready = before.inputs_ready
            /\ player.inputs_down = before.inputs_down
            /\ levels.tiles = prev.tiles
    /\ (Ticked /\ ~Aborted) => levels = prev

\* the player has walked out of the right edge of the last level, into the
\* first
C13_Witness ==
    /\ Aborted
    /\ prev.level_index = prev.num_levels - 1 /\ prev.num_levels > 1
    /\ levels.level_index = 0
    /\ player.position[1] = SIZE \div 2

\* velocity[1] during the vertical sweep of the tick made
SweptWith == hist.player.velocity[2] + gravity(hist.player)

(* C14, as claimed: after every tick on_ground is true only if the         *)
(* vertical sweep of that tick reported a collision while the body moved   *)
(* the way gravity pulls; a collision against gravity never sets on_ground *)
(* and every vertical collision sets velocity.y to 0.                      *)
C14_OnGroundOnlyAfterLanding ==
    Ticked =>
        /\ player.on_ground =>
                ret.y_collision /\ SweptWith * gravity(hist.player) > 0
        /\ (ret.y_collision /\ SweptWith * gravity(hist.player) <= 0) =>
                ~player.on_ground
        /\ ret.y_collision => ret.swept_velocity = 0

(* C14, as the code has it: after every tick that ran to its end on_ground *)
(* is true exactly when the vertical sweep of that tick reported a         *)
(* collision while the body moved the way gravity pulls; every vertical    *)
(* collision sets velocity.y to 0, before the jump of that tick; a tick    *)
(* cut short to change level makes no vertical sweep and leaves on_ground  *)
(* as it was.                                                              *)
C14_OnGroundAfterCompletedTick ==
    /\ Completed =>
        /\ player.on_ground <=>
                ret.y_collision /\ SweptWith * gravity(hist.player) > 0
        /\ ret.y_collision => ret.swept_velocity = 0
        /\ ~ret.y_collision => ret.swept_velocity = SweptWith
        /\ player.velocity[2] =
                IF ret.jumped THEN -15 * gravity(hist.player)
                ELSE ret.swept_velocity
    /\ Aborted =>
        /\ ~ret.y_collision
        /\ player.on_ground = hist.player.on_ground

\* the body has hit a ceiling: a collision against gravity
C14_Witness ==
    /\ Completed
    /\ ret.y_collision
    /\ SweptWith * gravity(hist.player) < 0
    /\ ~player.on_ground
    /\ player.velocity[2] = 0

(* C15: a ready jump input is honoured in a tick (the ready flag consumed, *)
(* velocity.y set to the jump impulse opposite to gravity) if and only if  *)
(* the body is on_ground in that tick or at most CYOTE_FRAMES ticks have   *)
(* elapsed since the last tick in which it was grounded; the coyote        *)
(* counter never exceeds CYOTE_FRAMES and never underflows.  The ticks     *)
(* counted are those that ran to their end.                                *)
C15_CoyoteWindow ==
    /\ Completed =>
        /\ ret.jumped <=>
                /\ hist.player.inputs_ready[0]
                /\ player.on_ground \/ hist.since_ground <= CYOTE_FRAMES
        /\ ret.jumped =>
                /\ ~player.inputs_ready[0]
                /\ player.velocity[2] = -15 * gravity(hist.player)
    /\ player.cyote_time \in 0..CYOTE_FRAMES

\* a corner of the body at position has no tile signal, or a tile that is
\* not of the kind air_kind
Blocked(L, position, air_kind) ==
    \E k \in 1..Len(CORNERS) :
        LET tile == get_from_position(L,
                        <<position[1] + corner_offset(CORNERS[k][1]),
                          position[2] + corner_offset(CORNERS[k][2])>>)
        IN  tile = None \/ Unwrap(tile) # air_kind

(* C16: the polarity flip is attempted in a tick only when the body is     *)
(* on_ground and the flip input is ready, and the attempt consumes the     *)
(* input; when the flipped footprint (position.y shifted by SIZE, up when  *)
(* air_kind is true and down when it is false, air_kind toggled)           *)
(* intersects blocking geometry or has no tile signal the flip is rejected *)
(* and air_kind and position are what they were before the attempt; when   *)
(* it does not, air_kind is toggled and position.y is shifted by SIZE.     *)
C16_Flip ==
    Completed =>
        LET before == ret.before_flip
            shifted == <<before.position[1],
                         IF before.air_kind THEN before.position[2] + SIZE
                         ELSE before.position[2] - SIZE>>
        IN  /\ before.position = ret.swept_position
            /\ before.air_kind = hist.player.air_kind
            /\ ret.flip_attempted <=>
                    player.on_ground /\ hist.player.inputs_ready[2]
            /\ ret.flip_attempted => ~player.inputs_ready[2]
            /\ ~ret.flip_attempted =>
                    /\ player.inputs_ready[2] = hist.player.inputs_ready[2]
                    /\ player.air_kind = before.air_kind
                    /\ player.position = before.position
            /\ (ret.flip_attempted
                    /\ Blocked(levels, shifted, ~before.air_kind)) =>
                    /\ player.air_kind = before.air_kind
                    /\ player.position = before.position
            /\ (ret.flip_attempted
                    /\ ~Blocked(levels, shifted, ~before.air_kind)) =>
                    /\ player.air_kind = ~before.air_kind
                    /\ player.position = shifted

\* a flip has been rejected: over the edge of the pillar the flipped body
\* would have a corner in the open
C16_Witness ==
    /\ Completed
    /\ ret.flip_attempted
    /\ Blocked(levels, <<ret.before_flip.position[1],
                         ret.before_flip.position[2] - SIZE>>, TRUE)
    /\ ~player.air_kind
    /\ player.position = ret.before_flip.position
    /\ ~player.inputs_ready[2]

-----------------------------------------------------------------------------
(* The editor: C18 to C20 *)

\* toggle_tile_index has been called, with the editor hist.editor on the
\* grid prev
Toggled == op.name = "toggle_tile_index"

\* the tiles that are not what they were when the editor was opened
Flipped == {i \in 0..(Len(levels.tiles) - 1) : At(levels.tiles, i) # At(hist.base, i)}

\* the gems, the active level and the bottom row of the first column let
\* the Limited editor toggle tile_index
Permitted(L, tile_index) ==
    /\ \A gem \in {L.limited_gem, L.full_gem} \ {None} :
            tile_index # Unwrap(gem) /\ tile_index # Unwrap(gem) - 1
    /\ L.level_index # L.num_levels - 1
    /\ tile_index >= LEVEL_HEIGHT

\* the player's body is clear of the tiles of L with those of `changed` flipped
Clear(L, changed) ==
    ~Blocked([L EXCEPT !.tiles = [i \in 1..Len(L.tiles) |->
                        IF i - 1 \in changed THEN ~L.tiles[i] ELSE L.tiles[i]]],
             player.position, player.air_kind)

(* C18: in Limited mode, after any sequence of toggle_tile_index calls the *)
(* grid differs from the grid at the start of the sequence in at most one  *)
(* tile, and that tile is last_selected (none when last_selected is None): *)
(* toggling A then B (A # B, both permitted and not intersecting) leaves   *)
(* exactly B flipped with last_selected = Some(B), and toggling B again    *)
(* leaves no tile flipped with last_selected = None.                       *)
C18_LimitedOneTile ==
    editor.mode = "Limited" =>
        /\ Len(levels.tiles) = Len(hist.base)
        /\ Flipped = {i \in 0..(Len(levels.tiles) - 1) :
                            editor.last_selected = Some(i)}
        /\ (Toggled /\ ~panicked) =>
            LET B == op.args[1]
                selected == hist.editor.last_selected
                accepted ==
                    /\ Permitted(prev, B)
                    /\ Clear(prev, {B})
                    /\ selected \notin {None, Some(B)} =>
                            Clear(prev, {B, Unwrap(selected)})
            IN  /\ accepted =>
                    editor.last_selected =
                        IF selected = Some(B) THEN None ELSE Some(B)
                /\ ~accepted => editor.last_selected = selected
                /\ ret = FALSE

\* A was selected and B has been toggled: B alone is flipped
C18_Witness ==
    /\ Toggled /\ ~panicked
    /\ editor.mode = "Limited"
    /\ hist.editor.last_selected # None
    /\ hist.editor.last_selected # Some(op.args[1])
    /\ editor.last_selected = Some(op.args[1])
    /\ Flipped = {op.args[1]}

\* tile_index is a gem's tile of L or the one before it
AtGem(L, tile_index) ==
    \E gem \in {L.limited_gem, L.full_gem} \ {None} :
        tile_index = Unwrap(gem) \/ tile_index = Unwrap(gem) - 1

(* C19: for every tile_index < tiles.len() and every placement of the gems *)
(* (a gem at flat index 0 included), toggle_tile_index of a tile that is a *)
(* gem's or the one before a gem's changes nothing and returns false: the  *)
(* tiles and the editor are as they were and the call completes normally.  *)
C19_GemTilesRefused ==
    (Toggled /\ AtGem(prev, op.args[1])) =>
        /\ ~panicked
        /\ ret = FALSE
        /\ levels = prev
        /\ editor = hist.editor

\* the call made came to flip its tile: no gem and no rule of the Limited
\* mode refused it
CameToFlip ==
    /\ Toggled /\ ~panicked
    /\ ~AtGem(prev, op.args[1])
    /\ hist.editor.mode = "Limited" => Permitted(prev, op.args[1])

\* the Limited editor came to revert the tile selected before
CameToRevert ==
    /\ CameToFlip
    /\ hist.editor.mode = "Limited"
    /\ hist.editor.last_selected \notin {None, Some(op.args[1])}
    /\ Clear(prev, {op.args[1]})

(* C20: a toggle_tile_index call that is refused because of intersection   *)
(* leaves the tiles and last_selected as they were before the call and     *)
(* returns false, both when the new flip makes the player intersect and,   *)
(* in Limited mode, when the revert of the tile selected before does: the  *)
(* new flip and the revert are both rolled back.                           *)
C20_IntersectionRefused ==
    /\ (CameToFlip /\ ~Clear(prev, {op.args[1]})) =>
            /\ levels = prev
            /\ editor = hist.editor
            /\ ret = FALSE
    /\ (CameToRevert
            /\ ~Clear(prev, {op.args[1], Unwrap(hist.editor.last_selected)})) =>
            /\ levels = prev
            /\ editor = hist.editor
            /\ ret = FALSE

\* the player stands in the tile selected before, which was solid: the
\* revert is refused and the new flip is rolled back
C20_Witness ==
    /\ CameToRevert
    /\ ~Clear(prev, {op.args[1], Unwrap(hist.editor.last_selected)})
    /\ levels = prev
    /\ editor = hist.editor
    /\ Flipped = {Unwrap(editor.last_selected)}
    /\ ret = FALSE

-----------------------------------------------------------------------------
(* The grid and the player together: C21 to C25 *)

\* the call made broke the precondition of insert_level or of remove_level
BrokePrecondition ==
    \/ op.name = "insert_level" /\ op.args[1] > prev.num_levels
    \/ op.name = "remove_level" /\ op.args[1] >= prev.num_levels

(* C21: insert_level(at) with at > num_levels and remove_level(at) with    *)
(* at >= num_levels fail, and when they fail the grid is not left          *)
(* inconsistent: tiles.len() is num_levels * (LEVEL_WIDTH - 1) *           *)
(* LEVEL_HEIGHT and num_levels, level_index, x_offset and tiles are what   *)
(* they were before the call.                                              *)
C21_FailureLeavesGridAsItWas ==
    BrokePrecondition =>
        /\ panicked
        /\ Len(levels.tiles) = levels.num_levels * LEVEL_TILES
        /\ levels = prev

\* the body rests on the floor
Settled ==
    /\ player.on_ground
    /\ player.position[2] = SUBDIV + SIZE \div 2
    /\ player.velocity[2] = 0

(* C22: on a grid of one level whose row 0 is solid in every column and    *)
(* every other row open, a body started at (7, 5) with air_kind false, at  *)
(* rest and with no input eventually reaches, and then stays forever in, a *)
(* state with on_ground true, position.y = 1 + SIZE / 2 and velocity.y =   *)
(* 0; position.x and level_index never change.                             *)
C22_SettlesOnFloor ==
    /\ <>[]Settled
    /\ [](player.position[1] = Dropped.position[1] /\ levels.level_index = 0)

\* a tick of the body at rest on the floor has left it at rest
C22_Witness ==
    /\ Completed
    /\ hist.player.on_ground
    /\ hist.player.position[2] = SUBDIV + SIZE \div 2
    /\ hist.player.velocity[2] = 0
    /\ Settled
    /\ ret.y_collision


(* C23: whenever the horizontal sweep of a tick yields a result, the       *)
(* vertical sweep of the same tick yields one too, so that update never    *)
(* aborts on the `unwrap` of the vertical sweep.                           *)
C23_VerticalSweepYieldsResult ==
    (Ticked /\ ret.signal) => ~ret.panics

\* a call of the editor
EditorCalled == op.name \in {"toggle_tile_index", "force_undo_temporary_actions"}

(* C24: an editor call never puts the player inside blocking geometry: a   *)
(* player that is not intersecting before a toggle_tile_index call         *)
(* (applied or refused, Limited or Full) or a                              *)
(* force_undo_temporary_actions call, and does not move during it, is not  *)
(* intersecting after it.                                                  *)
C24_EditorKeepsPlayerClear ==
    (EditorCalled /\ ~is_intersecting(prev, player)) => ~is_intersecting(levels, player)

\* a level was inserted or removed
Spliced == op.name \in {"insert_level", "remove_level"} /\ ~panicked

(* The flat index after the call of the cell that had index i before it:   *)
(* the cells from the level spliced on move by one level of tiles.  None:  *)
(* the cell was in the level removed.                                      *)
Moved(i) ==
    LET offset == op.args[1] * LEVEL_TILES IN
    IF i < offset THEN Some(i)
    ELSE IF op.name = "insert_level" THEN Some(i + LEVEL_TILES)
    ELSE IF i < offset + LEVEL_TILES THEN None
    ELSE Some(i - LEVEL_TILES)

\* the gem marker is on the same cell after the call, and inside the tiles
Follows(before, after) ==
    (before # None /\ Moved(Unwrap(before)) # None) =>
        /\ after = Moved(Unwrap(before))
        /\ Unwrap(after) < Len(levels.tiles)

(* C25: the gem markers follow their tiles across insert_level and         *)
(* remove_level: after a call that does not remove the level of a gem, the *)
(* set gem index denotes the same cell as before (the same level content,  *)
(* column and row) and is less than tiles.len().                           *)
C25_GemsFollowTheirTiles ==
    Spliced =>
        /\ Follows(prev.limited_gem, levels.limited_gem)
        /\ Follows(prev.full_gem, levels.full_gem)


=============================================================================
